---- MODULE Spec2Model ----
(***************************************************************************)
(* The Resonant Topography (docs/sketch.js): the phase controller          *)
(* (SceneManager), the fluid profile, the spatial hash (UniformGrid) and   *)
(* the per-frame physics loop (draw / Node), in fixed-point arithmetic.    *)
(*                                                                         *)
(* Lengths, velocities and accelerations are integers in 1/Unit pixel;     *)
(* currentT and the weights are integers in 1/Scale.  Desktop              *)
(* configuration (IS_MOBILE false); the canvas keeps its size during a     *)
(* behaviour (windowResized is not followed).                              *)
(*                                                                         *)
(* Spec      the phase controller and the fluid profile from setup()       *)
(* SpecFrame the frames of draw(), entered between two frames of a run     *)
(*           whose clicks lie in its warm-up history                       *)
(* SpecGrid  the rebuild / query cycle of the grid over arbitrary moves    *)
(***************************************************************************)
EXTENDS Integers, Sequences, FiniteSets, TLC

\* ------------------------------------------------------------------------
\* Bounds of the model
\* ------------------------------------------------------------------------
Scale == 100          \* resolution of currentT and of the weights (units per 1.0)
Unit == 100           \* resolution of lengths (units per pixel)
MaxAdvances == 9      \* cyclePhase calls followed in one behaviour
MaxFrames == 2        \* frames followed in one behaviour of the frame loop
NumNodes == 2         \* nodes in the model (CONFIG.nodeCount scaled down)
NoiseLevels == 32     \* quantisation of the noise() value in [0,1)
MaxRebuilds == 2      \* grid rebuilds followed in one behaviour of the grid harness

\* ------------------------------------------------------------------------
\* CONFIG
\* ------------------------------------------------------------------------
gridCellSize == 120 * Unit
fogMaxSpeed == (5 * Unit) \div 10
fogNoiseScale == 5                 \* noiseScale 0.005, in 1/1000
fogNoiseStrength == 500000         \* 0.5 px, in 1/1000000 px
connectionDist == 100 * Unit
attractForce == 8000               \* 0.008 px, in 1/1000000 px
repelForce == 150000               \* 0.15 px, in 1/1000000 px
repelRadius == 40 * Unit
netDrag == 90                      \* 0.90, in 1/100
netMaxSpeed == 2 * Unit
defaultMaxSpeed == 1 * Unit
fluidMaxSpeed == 4 * Unit
centerGravity == 20000             \* 0.02 px, in 1/1000000 px
vortexStrength == 80000            \* 0.08 px, in 1/1000000 px
flowNoise == 200000                \* 0.2 px, in 1/1000000 px
fluidDrag == 96                    \* 0.96, in 1/100
transitionSpeedNum == 2            \* transitionSpeed 0.02 = 2/100
transitionSpeedDen == 100

Nodes == 1..NumNodes

\* ------------------------------------------------------------------------
\* Arithmetic helpers (p5: constrain, lerp, abs, sqrt)
\* ------------------------------------------------------------------------
Abs(x) == IF x < 0 THEN -x ELSE x

\* a / b rounded to the nearest integer, halves away from zero (b > 0)
RoundDiv(a, b) ==
  IF a >= 0 THEN (2 * a + b) \div (2 * b) ELSE -((2 * (-a) + b) \div (2 * b))

\* floor(a / b) for b > 0, as Math.floor does
Floor(a, b) == a \div b

\* ceil(a / b) for b > 0, as Math.ceil does
Ceil(a, b) == -((-a) \div b)

constrain(n, low, high) ==
  LET m == IF n < high THEN n ELSE high IN IF m > low THEN m ELSE low

\* lerp(start, stop, amt) = amt * (stop - start) + start, amt = num/den
lerp(start, stop, num, den) == RoundDiv(num * (stop - start), den) + start

RECURSIVE SqrtBisect(_, _, _)
SqrtBisect(n, lo, hi) ==
  IF lo >= hi THEN lo
  ELSE LET mid == (lo + hi + 1) \div 2 IN
       IF mid * mid <= n THEN SqrtBisect(n, mid, hi) ELSE SqrtBisect(n, lo, mid - 1)

\* floor of the square root
ISqrt(n) == SqrtBisect(n, 0, 46340)

\* ------------------------------------------------------------------------
\* State
\* ------------------------------------------------------------------------
VARIABLES
  sm,             \* SceneManager: targetPhase, currentT, weights, dir, prevPhase
  fluidProfile,   \* gravitySign, gravityScale (in 1/10)
  advances,       \* number of cyclePhase calls so far
  lastAdvance,    \* <<targetPhase before, targetPhase after, randomize calls>> of the last cyclePhase
  width, height,  \* canvas extent
  grid,           \* UniformGrid: cellSize, cols, rows, cells
  pos, vel, acc,  \* Node fields
  frameCount,     \* p5 frameCount
  noiseSeed,      \* the noise field of this run
  pc, idx,        \* position of the frame loop: "idle", "loop" (node idx next), "render"
  startPos,       \* node positions at the grid rebuild of the current frame
  rawPos,         \* position of the last integrated node before wrapEdges
  results,        \* result of the last grid.query
  qnode,          \* node of the last grid.query (0: none)
  rebuilds        \* grid rebuilds so far in the grid harness

phaseVars == <<sm, fluidProfile, advances, lastAdvance>>
nodeVars == <<pos, vel, acc>>
gridVars == <<grid, results, qnode, rebuilds>>
loopVars == <<frameCount, pc, idx, startPos, rawPos>>
envVars == <<width, height, noiseSeed>>
vars == <<sm, fluidProfile, advances, lastAdvance, width, height, grid, pos, vel, acc,
          frameCount, noiseSeed, pc, idx, startPos, rawPos, results, qnode, rebuilds>>

\* ------------------------------------------------------------------------
\* SceneManager
\* ------------------------------------------------------------------------
SceneManagerNew ==
  [targetPhase |-> 0, currentT |-> 0,
   weights |-> [fog |-> Scale, net |-> 0, fluid |-> 0],
   dir |-> 1, prevPhase |-> 0]

\* cyclePhase without the reversal at targetPhase 2
SM_cyclePhase_noReverse(s) ==
  LET d == IF s.targetPhase = 0 THEN 1 ELSE s.dir
      t == constrain(s.targetPhase + d, 0, 2)
  IN [s EXCEPT !.dir = d, !.targetPhase = t]

SM_cyclePhase(s) ==
  LET d == IF s.targetPhase = 2 THEN -1 ELSE IF s.targetPhase = 0 THEN 1 ELSE s.dir
      t == constrain(s.targetPhase + d, 0, 2)
  IN [s EXCEPT !.dir = d, !.targetPhase = t]

\* TRUE when onPhaseChanged(prev, next) calls randomizeFluidProfile
onPhaseChanged(prev, next) ==
  LET enteringFluid == (prev = 1 /\ next = 2)
      leavingFluid == (prev = 2 /\ next = 1)
  IN enteringFluid \/ leavingFluid

\* the net weight without abs
SM_netWeight_noAbs(t) == constrain(Scale - (t - Scale), 0, Scale)

SM_netWeight(t) == constrain(Scale - Abs(t - Scale), 0, Scale)

\* update computing the weights from currentT before the lerp
SM_update_staleWeights(s) ==
  LET t == lerp(s.currentT, s.targetPhase * Scale, transitionSpeedNum, transitionSpeedDen)
      t0 == s.currentT
  IN [s EXCEPT !.currentT = t,
               !.weights = [fog |-> constrain(Scale - t0, 0, Scale),
                            net |-> SM_netWeight(t0),
                            fluid |-> constrain(t0 - Scale, 0, Scale)]]

SM_update(s) ==
  LET t == lerp(s.currentT, s.targetPhase * Scale, transitionSpeedNum, transitionSpeedDen)
  IN [s EXCEPT !.currentT = t,
               !.weights = [fog |-> constrain(Scale - t, 0, Scale),
                            net |-> SM_netWeight(t),
                            fluid |-> constrain(t - Scale, 0, Scale)]]

getWeights == sm.weights

\* ------------------------------------------------------------------------
\* Fluid profile
\* ------------------------------------------------------------------------
fluidProfileInit == [gravitySign |-> 1, gravityScale |-> 100]

\* random() < 0.1 and the random(lo, hi) draw, gravityScale in 1/10
RepulsionScales == {20, 50, 79}
AttractScales == {7, 10, 12}

randomizeFluidProfile(repel, scale) ==
  IF repel THEN [gravitySign |-> -1, gravityScale |-> scale]
  ELSE [gravitySign |-> 1, gravityScale |-> scale]

RandomDraws ==
  {<<TRUE, s>> : s \in RepulsionScales} \cup {<<FALSE, s>> : s \in AttractScales}

\* ------------------------------------------------------------------------
\* UniformGrid (cells is the flat array; cell (col,row) is cells[col + row*cols + 1])
\* ------------------------------------------------------------------------
UniformGridNew(w, h, size) ==
  LET c == Ceil(w, size)
      r == Ceil(h, size)
  IN [cellSize |-> size, cols |-> c, rows |-> r, cells |-> [i \in 1..(c * r) |-> <<>>]]

Grid_clear(g) == [g EXCEPT !.cells = [i \in DOMAIN g.cells |-> <<>>]]

Grid_inBounds(g, col, row) == col >= 0 /\ col < g.cols /\ row >= 0 /\ row < g.rows

\* the flat index with the row count as stride
Grid_index_rowStride(g, col, row) == col + row * g.rows + 1

Grid_index(g, col, row) == col + row * g.cols + 1

Grid_insert(g, n, p) ==
  LET col == Floor(p.x, g.cellSize)
      row == Floor(p.y, g.cellSize)
  IN IF Grid_inBounds(g, col, row)
       THEN [g EXCEPT !.cells[Grid_index(g, col, row)] = Append(@, n)]
       ELSE g

\* for (let node of nodes) grid.insert(node), nodes k..NumNodes in array order
RECURSIVE Grid_insertAll(_, _, _)
Grid_insertAll(g, P, k) ==
  IF k > NumNodes THEN g ELSE Grid_insertAll(Grid_insert(g, k, P[k]), P, k + 1)

\* the nine (i, j) offsets in the order of the two nested loops of query
QueryOffsets ==
  << <<-1, -1>>, <<-1, 0>>, <<-1, 1>>,
     <<0, -1>>, <<0, 0>>, <<0, 1>>,
     <<1, -1>>, <<1, 0>>, <<1, 1>> >>

RECURSIVE Grid_queryFrom(_, _, _, _)
Grid_queryFrom(g, col, row, k) ==
  IF k > Len(QueryOffsets) THEN <<>>
  ELSE LET c == col + QueryOffsets[k][1]
           r == row + QueryOffsets[k][2]
           cellNodes == IF Grid_inBounds(g, c, r) THEN g.cells[Grid_index(g, c, r)] ELSE <<>>
       IN cellNodes \o Grid_queryFrom(g, col, row, k + 1)

Grid_query(g, p) ==
  Grid_queryFrom(g, Floor(p.x, g.cellSize), Floor(p.y, g.cellSize), 1)

\* ------------------------------------------------------------------------
\* Vectors and noise
\* ------------------------------------------------------------------------
Vec(x, y) == [x |-> x, y |-> y]
VAdd(a, b) == Vec(a.x + b.x, a.y + b.y)
VZero == Vec(0, 0)

\* p5.Vector.fromAngle for the eight compass directions, components in 1/1000
Dir8 ==
  << Vec(1000, 0), Vec(707, 707), Vec(0, 1000), Vec(-707, 707),
     Vec(-1000, 0), Vec(-707, -707), Vec(0, -1000), Vec(707, -707) >>

\* noise(a, b, c) of p5 for arguments in 1/1000: a fixed field of the run,
\* sampled on a lattice of step 1/4, value level/NoiseLevels in [0,1)
noise(seed, a, b, c) ==
  (seed + 7 * (a \div 250) + 13 * (b \div 250) + 3 * (c \div 250)) % NoiseLevels

\* coefficient (1/1000000 px) times a weight
Mag(coef, wgt) == RoundDiv(coef * wgt, Scale)

\* component u (1/1000) of a unit vector times a magnitude (1/1000000 px), in 1/Unit px
Comp(u, mag) == RoundDiv(u * RoundDiv(mag * Unit, 1000), 1000000)

VScale(u, mag) == Vec(Comp(u.x, mag), Comp(u.y, mag))

\* v.normalize(), components in 1/1000
normalize(v) ==
  LET len == ISqrt(v.x * v.x + v.y * v.y)
  IN IF len = 0 THEN VZero ELSE Vec(RoundDiv(v.x * 1000, len), RoundDiv(v.y * 1000, len))

\* ------------------------------------------------------------------------
\* Node
\* ------------------------------------------------------------------------
Over001(wgt) == 100 * wgt > Scale      \* w > 0.01
Over05(wgt) == 2 * wgt > Scale         \* w > 0.5

\* 1. FOG force
FogForce(p, w, f, seed) ==
  IF Over001(w.fog)
    THEN LET noiseVal == noise(seed, (p.x * fogNoiseScale) \div Unit,
                               (p.y * fogNoiseScale) \div Unit, f * 5)
             angle == ((noiseVal * 4 * 8) \div NoiseLevels) % 8
         IN VScale(Dir8[angle + 1], Mag(fogNoiseStrength, w.fog))
    ELSE VZero

\* 0 < d < range for d = dist(a, b)
DistWithin(a, b, range) ==
  LET dx == Abs(b.x - a.x)
      dy == Abs(b.y - a.y)
  IN /\ dx < range
     /\ dy < range
     /\ dx * dx + dy * dy < range * range

\* the contribution of one neighbour `other` to the Net force on a node at p
NetPair(p, q, w) ==
  LET dx == q.x - p.x
      dy == q.y - p.y
  IN IF (dx # 0 \/ dy # 0) /\ DistWithin(p, q, connectionDist)
       THEN LET d == ISqrt(dx * dx + dy * dy)
                dir == normalize(Vec(dx, dy))
                attractStr == 1000 - RoundDiv(d * 1000, connectionDist)
                attract == IF Over001(w.net)
                             THEN VScale(dir, RoundDiv(attractStr * Mag(attractForce, w.net), 1000))
                             ELSE VZero
                repelStr == 1000 - RoundDiv(d * 1000, repelRadius)
                fluidFactor == 1000 - RoundDiv(w.fluid * 500, Scale)
                repel == IF DistWithin(p, q, repelRadius)
                           THEN VScale(dir, -RoundDiv(RoundDiv(repelStr * Mag(repelForce, w.net), 1000)
                                                        * fluidFactor, 1000))
                           ELSE VZero
            IN VAdd(attract, repel)
       ELSE VZero

RECURSIVE NetLoop(_, _, _, _, _)
NetLoop(n, P, neighbors, w, k) ==
  IF k > Len(neighbors) THEN VZero
  ELSE LET other == neighbors[k]
           f == IF other = n THEN VZero ELSE NetPair(P[n], P[other], w)
       IN VAdd(f, NetLoop(n, P, neighbors, w, k + 1))

\* TRUE when applyBehaviors calls grid.query
QueriesGrid(w) == Over001(w.net) \/ Over001(w.fluid)

\* 2. NET forces
NetForce(n, P, g, w) ==
  IF QueriesGrid(w) THEN NetLoop(n, P, Grid_query(g, P[n]), w, 1) ELSE VZero

\* 3. FLUID forces
FluidForce(p, w, f, seed, fp, wd, ht) ==
  IF Over001(w.fluid)
    THEN LET center == Vec(RoundDiv(wd, 2), RoundDiv(ht, 2))
             dirToCenter == normalize(Vec(center.x - p.x, center.y - p.y))
             gravity == VScale(dirToCenter,
                               RoundDiv(Mag(centerGravity, w.fluid) * fp.gravitySign * fp.gravityScale, 10))
             spiralDir == Vec(-dirToCenter.y, dirToCenter.x)
             spiral == VScale(spiralDir, Mag(vortexStrength, w.fluid))
             fluidNoise == noise(seed, (p.x * 10) \div Unit, (p.y * 10) \div Unit, f * 10)
             noiseDir == VScale(Dir8[((fluidNoise * 8) \div NoiseLevels) + 1], Mag(flowNoise, w.fluid))
         IN VAdd(VAdd(gravity, spiral), noiseDir)
    ELSE VZero

\* resetForces followed by applyBehaviors: the acceleration of node n, reading
\* the positions P through the grid g
applyBehaviors(n, P, g, w, f, seed, fp, wd, ht) ==
  VAdd(VAdd(FogForce(P[n], w, f, seed), NetForce(n, P, g, w)),
       FluidForce(P[n], w, f, seed, fp, wd, ht))

\* drag (1/100) and maxSpeed chosen by the three threshold branches
PhysicsDrag(w) == IF Over05(w.fluid) THEN fluidDrag ELSE IF Over05(w.net) THEN netDrag ELSE 100

PhysicsMaxSpeed(w) ==
  IF Over05(w.fluid) THEN fluidMaxSpeed
  ELSE IF Over05(w.net) THEN netMaxSpeed
  ELSE IF Over05(w.fog) THEN fogMaxSpeed
  ELSE defaultMaxSpeed

\* p5.Vector.limit
limit(v, max) ==
  LET mSq == v.x * v.x + v.y * v.y
  IN IF mSq > max * max
       THEN LET m == ISqrt(mSq) IN Vec(RoundDiv(v.x * max, m), RoundDiv(v.y * max, m))
       ELSE v

\* vel.add(acc); vel.mult(drag); vel.limit(maxSpeed)
integrateVel(v, a, w) ==
  LET v1 == VAdd(v, a)
      v2 == Vec(RoundDiv(v1.x * PhysicsDrag(w), 100), RoundDiv(v1.y * PhysicsDrag(w), 100))
  IN limit(v2, PhysicsMaxSpeed(w))

\* edges clamped instead of wrapped
wrapCoord_clamp(c, extent) ==
  LET c1 == IF c < 0 THEN 0 ELSE c
  IN IF c1 > extent THEN extent ELSE c1

wrapCoord(c, extent) ==
  LET c1 == IF c < 0 THEN extent ELSE c
  IN IF c1 > extent THEN 0 ELSE c1

wrapEdges(p, wd, ht) == Vec(wrapCoord(p.x, wd), wrapCoord(p.y, ht))

\* ------------------------------------------------------------------------
\* Inputs: canvas sizes, node positions and velocities, warm-up histories
\* ------------------------------------------------------------------------
WarmFrames == 60      \* frames between two clicks of a warm-up history
MaxWarmClicks == 3    \* clicks of the longest warm-up history

\* windowWidth, windowHeight: a canvas of whole cells and one of cut cells
Canvases == {<<360 * Unit, 240 * Unit>>, <<300 * Unit, 200 * Unit>>}

\* random(width), random(height) and later positions, for the frame loop
FrameXs(wd) == {30, gridCellSize - 10, wd - 30, wd}
FrameYs(ht) == {20}
Velocities == {Vec(-(Unit \div 2), 0), Vec(Unit \div 2, 0), Vec(0, -(Unit \div 2))}

\* positions on both sides of every cell border, for the grid harness
HarnessCoords(extent) ==
  {c \in {0, gridCellSize - 1, gridCellSize, 2 * gridCellSize} : c <= extent}
    \cup {extent}
HarnessPoints(wd, ht) == {Vec(x, y) : x \in HarnessCoords(wd), y \in HarnessCoords(ht)}

\* ------------------------------------------------------------------------
\* mousePressed / touchStarted -> SceneManager.cyclePhase
\* ------------------------------------------------------------------------
\* the outcomes <<scene manager, fluid profile, randomizeFluidProfile calls>> of one cyclePhase
CycleOutcomes(s, fp) ==
  LET s2 == SM_cyclePhase(s)
  IN IF onPhaseChanged(s.prevPhase, s2.targetPhase)
       THEN {<<s2, randomizeFluidProfile(r[1], r[2]), 1>> : r \in RandomDraws}
       ELSE {<<s2, fp, 0>>}

cyclePhase ==
  /\ pc = "idle"
  /\ advances < MaxAdvances
  /\ \E o \in CycleOutcomes(sm, fluidProfile) :
       /\ sm' = o[1]
       /\ fluidProfile' = o[2]
       /\ lastAdvance' = <<sm.targetPhase, o[1].targetPhase, o[3]>>
  /\ advances' = advances + 1
  /\ UNCHANGED <<nodeVars, gridVars, loopVars, envVars>>

\* SceneManager.update, the per-frame update of the phase controller alone
update ==
  /\ pc = "idle"
  /\ sm' = SM_update(sm)
  /\ UNCHANGED <<fluidProfile, advances, lastAdvance, nodeVars, gridVars, loopVars, envVars>>

\* ------------------------------------------------------------------------
\* draw: update + grid rebuild, then one step per node, then the render step
\* ------------------------------------------------------------------------
drawRebuild ==
  /\ pc = "idle"
  /\ rebuilds < MaxFrames
  /\ sm' = SM_update(sm)
  /\ frameCount' = frameCount + 1
  /\ grid' = Grid_insertAll(Grid_clear(grid), pos, 1)
  /\ startPos' = pos
  /\ pc' = "loop"
  /\ idx' = 1
  /\ rebuilds' = rebuilds + 1
  /\ qnode' = 0
  /\ results' = <<>>
  /\ UNCHANGED <<fluidProfile, advances, lastAdvance, nodeVars, rawPos, envVars>>

\* node.resetForces(); node.applyBehaviors(nodes, grid, weights); node.updatePhysics(weights)
nodeStep ==
  /\ pc = "loop"
  /\ idx <= NumNodes
  /\ LET n == idx
         w == getWeights
         a == applyBehaviors(n, pos, grid, w, frameCount, noiseSeed, fluidProfile, width, height)
         v == integrateVel(vel[n], a, w)
         raw == VAdd(pos[n], v)
     IN /\ acc' = [acc EXCEPT ![n] = a]
        /\ vel' = [vel EXCEPT ![n] = v]
        /\ rawPos' = raw
        /\ pos' = [pos EXCEPT ![n] = wrapEdges(raw, width, height)]
        /\ IF QueriesGrid(w)
             THEN qnode' = n /\ results' = Grid_query(grid, pos[n])
             ELSE UNCHANGED <<qnode, results>>
  /\ idx' = idx + 1
  /\ pc' = IF idx = NumNodes THEN "render" ELSE "loop"
  /\ UNCHANGED <<phaseVars, grid, rebuilds, frameCount, startPos, envVars>>

\* renderScene: queries the grid for every node when w.net > 0.01, changes no physics state
renderScene ==
  /\ pc = "render"
  /\ IF Over001(getWeights.net)
       THEN qnode' = NumNodes /\ results' = Grid_query(grid, pos[NumNodes])
       ELSE UNCHANGED <<qnode, results>>
  /\ pc' = "idle"
  /\ UNCHANGED <<phaseVars, nodeVars, grid, rebuilds, frameCount, idx, startPos, rawPos, envVars>>

\* ------------------------------------------------------------------------
\* The grid harness: rebuild (clear + insert every node), query, relocation
\* ------------------------------------------------------------------------
gridRebuild ==
  /\ pc = "idle"
  /\ rebuilds < MaxRebuilds
  /\ grid' = Grid_insertAll(Grid_clear(grid), pos, 1)
  /\ rebuilds' = rebuilds + 1
  /\ pc' = "loop"
  /\ qnode' = 0
  /\ results' = <<>>
  /\ UNCHANGED <<phaseVars, nodeVars, envVars, frameCount, idx, startPos, rawPos>>

gridQuery ==
  /\ pc = "loop"
  /\ \E n \in Nodes :
       /\ qnode' = n
       /\ results' = Grid_query(grid, pos[n])
  /\ UNCHANGED <<phaseVars, nodeVars, envVars, grid, rebuilds, loopVars>>

\* a node is moved by the physics between two rebuilds
relocate ==
  /\ pc = "loop"
  /\ rebuilds < MaxRebuilds
  /\ \E n \in Nodes : \E p \in HarnessPoints(width, height) :
       /\ p # pos[n]
       /\ pos' = [pos EXCEPT ![n] = p]
  /\ pc' = "idle"
  /\ qnode' = 0
  /\ results' = <<>>
  /\ UNCHANGED <<phaseVars, vel, acc, envVars, grid, rebuilds, frameCount, idx, startPos, rawPos>>

\* ------------------------------------------------------------------------
\* Specifications
\* ------------------------------------------------------------------------
\* setup(), with fixed nodes: the phase controller and the fluid profile
Init ==
  /\ sm = SceneManagerNew
  /\ fluidProfile = fluidProfileInit
  /\ advances = 0
  /\ lastAdvance = <<0, 0, 0>>
  /\ width = 360 * Unit
  /\ height = 240 * Unit
  /\ grid = UniformGridNew(width, height, gridCellSize)
  /\ pos = [n \in Nodes |-> Vec(30, 20)]
  /\ vel = [n \in Nodes |-> VZero]
  /\ acc = [n \in Nodes |-> VZero]
  /\ frameCount = 0
  /\ noiseSeed = 0
  /\ pc = "idle"
  /\ idx = 1
  /\ startPos = pos
  /\ rawPos = VZero
  /\ results = <<>>
  /\ qnode = 0
  /\ rebuilds = 0

Next == cyclePhase \/ update

Spec == Init /\ [][Next]_vars

\* the states after k clicks, each followed by WarmFrames updates
RECURSIVE SMAfter(_, _)
\* (the test on currentT, never negative, evaluates each step before the next)
SMAfter(s, k) ==
  IF k = 0 THEN s
  ELSE LET n == SM_update(s)
       IN IF n.currentT >= 0 THEN SMAfter(n, k - 1) ELSE n

RECURSIVE WarmStates(_)
WarmStates(k) ==
  IF k = 0
    THEN {[sm |-> SceneManagerNew, fp |-> fluidProfileInit, frames |-> 0, advances |-> 0,
           last |-> <<0, 0, 0>>]}
    ELSE UNION {{[sm |-> SMAfter(o[1], WarmFrames), fp |-> o[2],
                  frames |-> st.frames + WarmFrames, advances |-> st.advances + 1,
                  last |-> <<st.sm.targetPhase, o[1].targetPhase, o[3]>>]
                 : o \in CycleOutcomes(st.sm, st.fp)} : st \in WarmStates(k - 1)}

\* the frame loop, entered between two frames of a run
InitFrame ==
  /\ \E k \in 0..MaxWarmClicks : \E st \in WarmStates(k) :
       /\ sm = st.sm
       /\ fluidProfile = st.fp
       /\ advances = st.advances
       /\ lastAdvance = st.last
       /\ frameCount = st.frames
  /\ \E c \in Canvases : width = c[1] /\ height = c[2]
  /\ grid = UniformGridNew(width, height, gridCellSize)
  /\ pos \in [Nodes -> {Vec(x, y) : x \in FrameXs(width), y \in FrameYs(height)}]
  /\ vel \in [Nodes -> Velocities]
  /\ acc = [n \in Nodes |-> VZero]
  /\ noiseSeed = 0
  /\ pc = "idle"
  /\ idx = 1
  /\ startPos = pos
  /\ rawPos = VZero
  /\ results = <<>>
  /\ qnode = 0
  /\ rebuilds = 0

NextFrame == drawRebuild \/ nodeStep \/ renderScene

SpecFrame == InitFrame /\ [][NextFrame]_vars

\* the grid alone, over node positions on both sides of every cell border
InitGrid ==
  /\ sm = SceneManagerNew
  /\ fluidProfile = fluidProfileInit
  /\ advances = 0
  /\ lastAdvance = <<0, 0, 0>>
  /\ \E c \in Canvases : width = c[1] /\ height = c[2]
  /\ grid = UniformGridNew(width, height, gridCellSize)
  /\ pos \in [Nodes -> HarnessPoints(width, height)]
  /\ vel = [n \in Nodes |-> VZero]
  /\ acc = [n \in Nodes |-> VZero]
  /\ frameCount = 0
  /\ noiseSeed = 0
  /\ pc = "idle"
  /\ idx = 1
  /\ startPos = [n \in Nodes |-> VZero]
  /\ rawPos = VZero
  /\ results = <<>>
  /\ qnode = 0
  /\ rebuilds = 0

NextGrid == gridRebuild \/ gridQuery \/ relocate

SpecGrid == InitGrid /\ [][NextGrid]_vars

\* ------------------------------------------------------------------------
\* Properties
\* ------------------------------------------------------------------------
Count(seq, x) == Cardinality({i \in DOMAIN seq : seq[i] = x})

\* C1: every advance that changes targetPhase 1->2 or 2->1 invokes
\* randomizeFluidProfile exactly once, and an advance 0->1 or 1->0 never does.
C1_ResampleOnFluidBoundary ==
  advances > 0 =>
    LET before == lastAdvance[1]
        after == lastAdvance[2]
        calls == lastAdvance[3]
    IN /\ ((before = 1 /\ after = 2) \/ (before = 2 /\ after = 1)) => calls = 1
       /\ ((before = 0 /\ after = 1) \/ (before = 1 /\ after = 0)) => calls = 0

\* one period of the ping-pong cycle
PingPong == <<0, 1, 2, 1>>

\* C2: after k advances targetPhase is the k-th element of 0,1,2,1,0,1,2,1,...
\* whatever updates were interleaved; targetPhase is in {0,1,2}, dir in {1,-1},
\* and every advance changes targetPhase by exactly 1.
C2_PingPongCycle ==
  /\ sm.targetPhase \in {0, 1, 2}
  /\ sm.dir \in {1, -1}
  /\ sm.targetPhase = PingPong[(advances % 4) + 1]
  /\ advances > 0 =>
       /\ lastAdvance[2] = sm.targetPhase
       /\ Abs(lastAdvance[2] - lastAdvance[1]) = 1

C2_Witness ==
  /\ advances = 6
  /\ sm.targetPhase = 2
  /\ sm.currentT > 0

\* clamp to [0,1]
Clamp01(x) == IF x < 0 THEN 0 ELSE IF x > Scale THEN Scale ELSE x

\* C3: currentT lies in [0,2] and the stored weights are the function of
\* currentT fog = clamp(1-p), net = clamp(1-|p-1|), fluid = clamp(p-1); each
\* weight lies in [0,1] and the triple is (1,0,0), (0,1,0), (0,0,1) at p = 0, 1, 2.
C3_WeightsFunctionOfProgress ==
  LET p == sm.currentT
      w == getWeights
  IN /\ 0 <= p /\ p <= 2 * Scale
     /\ w.fog = Clamp01(Scale - p)
     /\ w.net = Clamp01(Scale - Abs(p - Scale))
     /\ w.fluid = Clamp01(p - Scale)
     /\ \A k \in {"fog", "net", "fluid"} : 0 <= w[k] /\ w[k] <= Scale
     /\ p = 0 => w = [fog |-> Scale, net |-> 0, fluid |-> 0]
     /\ p = Scale => w = [fog |-> 0, net |-> Scale, fluid |-> 0]
     /\ p = 2 * Scale => w = [fog |-> 0, net |-> 0, fluid |-> Scale]

C3_Witness ==
  /\ sm.currentT > Scale
  /\ sm.targetPhase = 0
  /\ getWeights.fluid > 0
  /\ getWeights.net > 0

\* C9: at most one of the weights fog, net, fluid exceeds 0.5.
C9_OneDominantWeight ==
  Cardinality({k \in {"fog", "net", "fluid"} : Over05(getWeights[k])}) <= 1

C9_Witness ==
  /\ Over05(getWeights.fluid)
  /\ advances >= 2

\* C10: the fluid profile is always gravitySign=+1 with gravityScale in
\* [0.7,1.3] or gravitySign=-1 with gravityScale in [2,8].
C10_ProfileShape ==
  \/ fluidProfile.gravitySign = 1 /\ fluidProfile.gravityScale >= 7 /\ fluidProfile.gravityScale <= 13
  \/ fluidProfile.gravitySign = -1 /\ fluidProfile.gravityScale >= 20 /\ fluidProfile.gravityScale <= 80

\* the cell of a position, and the 3x3 block of node n clipped to the grid
CellCol(p) == p.x \div gridCellSize
CellRow(p) == p.y \div gridCellSize

InClippedBlock(m, n) ==
  /\ CellCol(pos[m]) >= 0 /\ CellCol(pos[m]) < grid.cols
  /\ CellRow(pos[m]) >= 0 /\ CellRow(pos[m]) < grid.rows
  /\ Abs(CellCol(pos[m]) - CellCol(pos[n])) <= 1
  /\ Abs(CellRow(pos[m]) - CellRow(pos[n])) <= 1

\* C5: after clear() and the insert of every node, query(n) holds exactly once
\* each node whose cell is in the clipped 3x3 block of n's cell, and no other.
C5_QueryIsClippedBlock ==
  (pc = "loop" /\ qnode # 0) =>
    \A m \in Nodes : Count(results, m) = IF InClippedBlock(m, qnode) THEN 1 ELSE 0

C5_Witness ==
  /\ pc = "loop"
  /\ rebuilds = 2
  /\ qnode # 0
  /\ results = <<qnode>>
  /\ \E m \in Nodes : CellCol(pos[m]) = CellCol(pos[qnode]) + 2 /\ CellCol(pos[m]) < grid.cols

\* the node integrated by the last nodeStep of the current frame (0: none)
lastStepped ==
  IF pc = "loop" /\ idx > 1 THEN idx - 1 ELSE IF pc = "render" THEN NumNodes ELSE 0

WrappedFrom(raw, c, extent) ==
  /\ 0 <= c /\ c <= extent
  /\ raw < 0 => c = extent
  /\ raw > extent => c = 0
  /\ (0 <= raw /\ raw <= extent) => c = raw

\* C6: after updatePhysics each coordinate lies in [0, extent]: below 0 it was
\* set to the extent, above the extent to 0, and otherwise left as integrated.
C6_WrapToOppositeEdge ==
  lastStepped # 0 =>
    /\ WrappedFrom(rawPos.x, pos[lastStepped].x, width)
    /\ WrappedFrom(rawPos.y, pos[lastStepped].y, height)

C6_Witness ==
  /\ lastStepped # 0
  /\ rawPos.x < 0
  /\ pos[lastStepped].x = width

processed(n) == (pc = "loop" /\ n < idx) \/ pc = "render"

\* C4: the acceleration a node accumulates in a frame is the one computed from
\* the positions all nodes had at the grid rebuild, whatever the processing order.
C4_OrderIndependentAcc ==
  \A n \in Nodes :
    processed(n) =>
      acc[n] = applyBehaviors(n, startPos, grid, getWeights, frameCount, noiseSeed,
                              fluidProfile, width, height)

\* the frame loop is about to issue grid.query
QueryIssued ==
  \/ pc = "loop" /\ idx <= NumNodes /\ QueriesGrid(getWeights)
  \/ pc = "render" /\ Over001(getWeights.net)

\* C7: whenever the frame loop issues a grid query, every node is stored in
\* exactly the cell of its current position (in none if out of bounds).
C7_GridReflectsPositions ==
  QueryIssued =>
    \A n \in Nodes : \A i \in DOMAIN grid.cells :
      Count(grid.cells[i], n) =
        IF /\ Grid_inBounds(grid, CellCol(pos[n]), CellRow(pos[n]))
           /\ i = CellCol(pos[n]) + CellRow(pos[n]) * grid.cols + 1
          THEN 1 ELSE 0

\* C8: with gridCellSize >= connectionDist, when node n runs its Net loop
\* grid.query(n) contains every other node at distance 0 < d < connectionDist.
C8_NoNeighbourMissed ==
  (gridCellSize >= connectionDist /\ pc = "loop" /\ idx <= NumNodes /\ QueriesGrid(getWeights)) =>
    \A m \in Nodes \ {idx} :
      (pos[m] # pos[idx] /\ DistWithin(pos[idx], pos[m], connectionDist)) =>
        Count(Grid_query(grid, pos[idx]), m) >= 1

====
